---- MODULE Spec2Model ----
(***************************************************************************)
(* A model of src/modules.py: Conv, ZeroConv1d, ResBlock and WaveNet.      *)
(*                                                                         *)
(* The Python code builds TensorFlow graph tensors.  A graph tensor is     *)
(* modelled by what the code can observe or change of it: its static shape *)
(* (batch, time, channels), for every time step the set of input time      *)
(* steps its value is computed from (dep), and the list of producers it is *)
(* the element-wise sum of (src).  A Python None is the record None, a     *)
(* raised exception the record Raise(e); an exception raised by an operand *)
(* propagates through every later operation of the same call.             *)
(*                                                                         *)
(* The numbers a Conv or a ZeroConv1d computes are modelled separately on  *)
(* integer tensors (time x channel), see "values" below.                   *)
(***************************************************************************)
EXTENDS Integers, Sequences, FiniteSets, TLC

\* ------------------------------------------------------------------ bounds
MaxT == 3           \* longest input (time steps)
Batch == 2          \* batch size of the inputs
MaxK == 2           \* largest kernel_size
MaxD == 2           \* largest dilation given to a Conv or a ResBlock directly
MaxGroups == 2      \* largest num_blocks
MaxLayers == 2      \* largest num_layers
MaxAudioLen == 12   \* longest wav (samples) given to _process_utterance
MaxHop == 4         \* largest hparams.hop_size

\* body(v) for v the value of e, computed once.
Let(e, body(_)) == CHOOSE r \in {body(v) : v \in {e}} : TRUE

\* ------------------------------------------------------- Python / tf values
None == [kind |-> "none"]

Raise(e) == [kind |-> "err", err |-> e]

IsTensor(x) == x.kind = "tensor"

IsErr(x) == x.kind = "err"

\* A graph tensor of shape (batch, Len(dep), ch).
Tensor(batch, dep, ch, src) ==
    [kind |-> "tensor", batch |-> batch, dep |-> dep, ch |-> ch, src |-> src]

TimeLen(x) == Len(x.dep)

Shape(x) == <<x.batch, TimeLen(x), x.ch>>

\* An input placeholder of the given shape: step t is computed from step t.
Placeholder(name, batch, T, ch) ==
    Tensor(batch, [t \in 1..T |-> {t}], ch, << <<name, 0, 0>> >>)

\* The first exception raised by a sequence of evaluations, in their order;
\* None when none raises.
RECURSIVE FirstErr(_)
FirstErr(xs) ==
    IF xs = <<>> THEN None
    ELSE IF IsErr(Head(xs)) THEN Head(xs) ELSE FirstErr(Tail(xs))

\* tf.pad(tensor, ((0, 0), (p, p), (0, 0))): p zero steps on both sides of the
\* time axis; a negative padding is rejected.
tf_pad(x, p) ==
    IF ~IsTensor(x) THEN (IF IsErr(x) THEN x ELSE Raise("NoneInput"))
    ELSE IF p < 0 THEN Raise("NegativePadding")
    ELSE Tensor(x.batch,
                [t \in 1..(TimeLen(x) + 2 * p) |->
                    IF t > p /\ t <= p + TimeLen(x) THEN x.dep[t - p] ELSE {}],
                x.ch, << <<"pad", 0, 0>> >>)

\* Broadcasting of one dimension of two operands: equal, or one of them 1.
BroadcastOk(a, b) == a = b \/ a = 1 \/ b = 1

BroadcastDim(a, b) == IF a = 1 THEN b ELSE a

\* Element-wise binary op (+, *) with numpy broadcasting on every dimension.
tf_binary(a, b, name) ==
    IF FirstErr(<<a, b>>) # None THEN FirstErr(<<a, b>>)
    ELSE IF ~IsTensor(a) \/ ~IsTensor(b) THEN Raise("NoneInput")
    ELSE IF ~(BroadcastOk(a.batch, b.batch) /\ BroadcastOk(TimeLen(a), TimeLen(b))
              /\ BroadcastOk(a.ch, b.ch))
         THEN Raise("ShapeMismatch")
    ELSE LET T == BroadcastDim(TimeLen(a), TimeLen(b))
             at(x, t) == IF TimeLen(x) = 1 THEN x.dep[1] ELSE x.dep[t]
         IN Tensor(BroadcastDim(a.batch, b.batch),
                   [t \in 1..T |-> at(a, t) \cup at(b, t)],
                   BroadcastDim(a.ch, b.ch), << <<name, 0, 0>> >>)

\* Element-wise unary op (tanh, sigmoid, relu, * sqrt(0.5)): same shape, each
\* step computed from the same step.
tf_unary(x, name) ==
    IF ~IsTensor(x) THEN (IF IsErr(x) THEN x ELSE Raise("NoneInput"))
    ELSE [x EXCEPT !.src = << <<name, 0, 0>> >>]

\* Python's seq[:stop]: the first stop elements, or all but the last -stop
\* when stop is negative.
PySliceTo(seq, stop) ==
    SubSeq(seq, 1, IF stop >= 0 THEN (IF stop < Len(seq) THEN stop ELSE Len(seq))
                   ELSE Len(seq) + stop)

\* A mutant of TruncateTime: the slice [p:], which drops the first p steps.
TruncateTime_front(seq, p) == SubSeq(seq, p + 1, Len(seq))

\* The time axis of out[:, :-p].
TruncateTime(seq, p) == PySliceTo(seq, 0 - p)

\* out[:, :-p] on a graph tensor.
SliceDropLast(x, p) ==
    IF ~IsTensor(x) THEN x
    ELSE [x EXCEPT !.dep = TruncateTime(x.dep, p),
                   !.src = << <<"slice", 0, 0>> >>]

\* The same tensor under the name of the layer that returns it.
Named(x, name, b, n) ==
    IF IsTensor(x) THEN [x EXCEPT !.src = << <<name, b, n>> >>] ELSE x

\* ------------------------------------------------------------------ Conv1D
\* convolutional.Conv1D, padding='valid'.  The layer is given no input width:
\* it creates its kernel on its first call from the input it sees (in_ch = 0
\* until then) and accepts only that width afterwards.
Conv1D_init(filters, kernel_size, dilation_rate) ==
    [filters |-> filters, kernel_size |-> kernel_size,
     dilation_rate |-> dilation_rate, in_ch |-> 0]

\* Length of a 'valid' convolution's output.  The graph's shape inference
\* rejects an input shorter than the dilated kernel.
ValidLen(L, kernel_size, dilation_rate) == L - dilation_rate * (kernel_size - 1)

Conv1D_call(layer, x) ==
    IF ~IsTensor(x) THEN (IF IsErr(x) THEN x ELSE Raise("NoneInput"))
    ELSE IF layer.kernel_size < 1 \/ layer.dilation_rate < 1 \/ layer.filters < 1
         THEN Raise("InvalidKernel")
    ELSE IF layer.in_ch # 0 /\ layer.in_ch # x.ch THEN Raise("ChannelMismatch")
    ELSE IF ValidLen(TimeLen(x), layer.kernel_size, layer.dilation_rate) < 1
         THEN Raise("NegativeDimension")
    ELSE Tensor(x.batch,
                [j \in 1..ValidLen(TimeLen(x), layer.kernel_size, layer.dilation_rate) |->
                    UNION {x.dep[j + i * layer.dilation_rate] :
                               i \in 0..(layer.kernel_size - 1)}],
                layer.filters, << <<"conv1d", 0, 0>> >>)

\* The layer after the call: built for the input's width by its first good call.
Conv1D_after(layer, x) ==
    IF IsTensor(Conv1D_call(layer, x)) /\ layer.in_ch = 0
    THEN [layer EXCEPT !.in_ch = x.ch] ELSE layer

\* -------------------------------------------------------------------- Conv
\* Conv.__init__: the padding amount and the Conv1D layer.  in_channels is
\* not kept, nor given to the layer.
ConvPadding(kernel_size, dilation, causal) ==
    IF causal THEN dilation * (kernel_size - 1)
    ELSE (dilation * (kernel_size - 1)) \div 2

Conv_init(in_channels, out_channels, kernel_size, dilation, causal) ==
    [causal |-> causal,
     padding |-> ConvPadding(kernel_size, dilation, causal),
     conv |-> Conv1D_init(out_channels, kernel_size, dilation)]

\* A mutant of TruncateCausal: the test without `self._padding is not 0`.
TruncateCausal_always(self) == self.causal

\* `self._causal and self._padding is not 0`: the padding is a Python int, and
\* an int is the object 0 exactly when it equals 0.
TruncateCausal(self) == self.causal /\ self.padding # 0

Conv_forward(self, tensor) ==
    Let(tf_pad(tensor, self.padding), LAMBDA padded_tensor :
    Let(Conv1D_call(self.conv, padded_tensor), LAMBDA out :
        IF TruncateCausal(self) THEN SliceDropLast(out, self.padding) ELSE out))

Conv_after(self, tensor) ==
    Let(tf_pad(tensor, self.padding), LAMBDA padded_tensor :
        [self EXCEPT !.conv = Conv1D_after(self.conv, padded_tensor)])

\* ------------------------------------------------------------------ values
\* The numbers of one sample: a sequence over time of sequences over channels
\* of integers.  NumSeeds draws of an initializer and of a feed stand for the
\* random ones.
NumSeeds == 2

Zeros(n) == [c \in 1..n |-> 0]

\* tf.initializers.zeros() / he_uniform() for a kernel of shape
\* (kernel_size, in_ch, filters): he_uniform gives nonzero weights of both signs.
\* A mutant of KernelZeros: the initializer tf.initializers.ones().
KernelOnes(kernel_size, in_ch, filters) ==
    [k \in 1..kernel_size |-> [i \in 1..in_ch |-> [o \in 1..filters |-> 1]]]

KernelZeros(kernel_size, in_ch, filters) ==
    [i \in 1..kernel_size |-> [c \in 1..in_ch |-> [o \in 1..filters |-> 0]]]

KernelHeUniform(seed, kernel_size, in_ch, filters) ==
    [i \in 1..kernel_size |-> [c \in 1..in_ch |-> [o \in 1..filters |->
        IF (seed + i + c + o) % 2 = 0 THEN i + seed ELSE 0 - (c + o)]]]

RECURSIVE SumTo(_, _)
SumTo(f, n) == IF n = 0 THEN 0 ELSE f[n] + SumTo(f, n - 1)

\* np/tf zero padding of the time axis of a feed of width ch.
PadValues(x, p, ch) ==
    [t \in 1..(Len(x) + 2 * p) |->
        IF t > p /\ t <= p + Len(x) THEN x[t - p] ELSE Zeros(ch)]

\* A 'valid' dilated 1-D convolution plus bias:
\* out[j][o] = bias[o] + sum_i sum_c kernel[i][c][o] * x[j + (i-1)*dilation][c].
Conv1D_values(kernel, bias, dilation_rate, x) ==
    LET k == Len(kernel)
        in_ch == Len(kernel[1])
        filters == Len(bias)
        tap(j, i, o) == SumTo([c \in 1..in_ch |->
                                 kernel[i][c][o] * x[j + (i - 1) * dilation_rate][c]], in_ch)
    IN [j \in 1..ValidLen(Len(x), k, dilation_rate) |->
           [o \in 1..filters |->
               bias[o] + SumTo([i \in 1..k |-> tap(j, i, o)], k)]]

\* The numbers Conv.forward computes for a feed x, for the graph a good call
\* built: pad, convolve, drop the last `padding` steps of a causal Conv.
Conv_values(self, kernel, bias, x) ==
    LET padded == PadValues(x, self.padding, Len(kernel[1]))
        out == Conv1D_values(kernel, bias, self.conv.dilation_rate, padded)
    IN IF TruncateCausal(self) THEN TruncateTime(out, self.padding) ELSE out

\* Feeds: a base signal, and the same signal changed at time step s only.
Feed(seed, T, ch) == [t \in 1..T |-> [c \in 1..ch |-> (seed * t + c) % 3]]

Perturb(x, s) == [x EXCEPT ![s] = [c \in DOMAIN x[s] |-> x[s][c] + 1]]

\* -------------------------------------------------------------- ZeroConv1d
\* An optional constructor argument: None, or a number.
NoneArg == [some |-> FALSE, v |-> 0]

Some(v) == [some |-> TRUE, v |-> v]

\* ZeroConv1d.__init__: a kernel-size-1 Conv1D with zero kernel and bias
\* initializers, and the variable `scale` of shape [1, 1, out_channel], zeros.
\* The kernel's numbers exist once the layer is built (<<>> before).
ZeroConv1d_init(in_channel, out_channel) ==
    [conv |-> Conv1D_init(out_channel, 1, 1),
     kernel |-> <<>>,
     bias |-> Zeros(out_channel),
     scale |-> Zeros(out_channel)]

\* The variable `scale` as a graph tensor of shape (1, 1, out_channel).
ScaleTensor(self) == Tensor(1, << {} >>, Len(self.scale), << <<"scale", 0, 0>> >>)

\* out = self._conv(x); out = out * tf.exp(self._scale * 3)
ZeroConv1d_forward(self, x) ==
    Let(Conv1D_call(self.conv, x), LAMBDA out :
    Let(tf_unary(tf_unary(ScaleTensor(self), "mul3"), "exp"), LAMBDA factor :
        tf_binary(out, factor, "mul")))

\* The object after the call: the first good call builds the layer and
\* creates the kernel with tf.initializers.zeros().
ZeroConv1d_after(self, x) ==
    IF IsTensor(Conv1D_call(self.conv, x)) /\ self.conv.in_ch = 0
    THEN [self EXCEPT !.conv = Conv1D_after(self.conv, x),
                      !.kernel = KernelZeros(1, x.ch, self.conv.filters)]
    ELSE self

\* The numbers ZeroConv1d.forward computes for a feed: element (t, o) is the
\* pair [m, e] standing for m * exp(e), with m = conv(x)[t][o] and
\* e = 3 * scale[o].  exp(e) > 0, so the element is zero exactly when m = 0.
ZeroConv1d_values(self, x) ==
    LET out == Conv1D_values(self.kernel, self.bias, 1, x)
    IN [t \in 1..Len(out) |->
           [o \in 1..Len(self.bias) |-> [m |-> out[t][o], e |-> 3 * self.scale[o]]]]

\* ---------------------------------------------------------------- ResBlock
\* ResBlock.__init__.  An attribute the constructor does not set is None.
\* scope is <<b, n>> for 'ResBlock_%d_%d' % (b, n).
ResBlock_init(in_channels, out_channels, skip_channels, kernel_size, dilation, cin_channels, local_conditioning, causal, scope) ==
    [scope |-> scope,
     causal |-> causal,
     local_conditioning |-> local_conditioning,
     cin_channels |-> cin_channels,
     skip |-> skip_channels.some,
     filter_conv |-> Conv_init(in_channels, out_channels, kernel_size, dilation, causal),
     gate_conv |-> Conv_init(in_channels, out_channels, kernel_size, dilation, causal),
     res_conv |-> Conv1D_init(out_channels, 1, 1),
     skip_conv |-> IF skip_channels.some THEN Conv1D_init(skip_channels.v, 1, 1) ELSE None,
     filter_conv_c |-> IF local_conditioning THEN Conv1D_init(out_channels, 1, 1) ELSE None,
     gate_conv_c |-> IF local_conditioning THEN Conv1D_init(out_channels, 1, 1) ELSE None]

\* A mutant of UseConditioning: the term is skipped when c is None.
UseConditioning_given(self, c) == self.local_conditioning /\ c # None

\* Whether the conditioning term is added to the filter and gate paths:
\* `if self._local_conditioning:`, whatever c is.
UseConditioning(self, c) == self.local_conditioning

\* Every value ResBlock.forward computes, in the order it computes them.
ResBlock_steps(self, tensor, c) ==
    Let(Conv_forward(self.filter_conv, tensor), LAMBDA conv_filter :
    Let(Conv_forward(self.gate_conv, tensor), LAMBDA conv_gate :
    Let(IF UseConditioning(self, c)
        THEN Conv1D_call(self.filter_conv_c, c) ELSE None, LAMBDA cond_filter :
    Let(IF UseConditioning(self, c)
        THEN tf_binary(conv_filter, cond_filter, "add") ELSE conv_filter, LAMBDA h_filter :
    Let(IF UseConditioning(self, c)
        THEN Conv1D_call(self.gate_conv_c, c) ELSE None, LAMBDA cond_gate :
    Let(IF UseConditioning(self, c)
        THEN tf_binary(conv_gate, cond_gate, "add") ELSE conv_gate, LAMBDA h_gate :
    Let(tf_binary(tf_unary(h_filter, "tanh"), tf_unary(h_gate, "sigmoid"), "mul"),
        LAMBDA out :
    Let(Conv1D_call(self.res_conv, out), LAMBDA res :
    Let(IF self.skip THEN Conv1D_call(self.skip_conv, out) ELSE None, LAMBDA skip :
    Let(tf_binary(tensor, res, "add"), LAMBDA sum :
        [conv_filter |-> conv_filter, conv_gate |-> conv_gate,
         cond_filter |-> cond_filter, h_filter |-> h_filter,
         cond_gate |-> cond_gate, h_gate |-> h_gate,
         out |-> out, res |-> res, skip |-> skip,
         stream |-> tf_unary(sum, "mul_sqrt_half")]))))))))))

\* The exception ResBlock.forward raises (None when it returns), from the
\* values s it computes.
ResBlock_raised(s) ==
    FirstErr(<<s.conv_filter, s.conv_gate, s.cond_filter, s.h_filter,
               s.cond_gate, s.h_gate, s.out, s.res, s.skip, s.stream>>)

\* What ResBlock.forward returns from the values s: the pair (stream, skip);
\* when it raises, both are the exception.
ResBlock_returns(self, s) ==
    LET e == ResBlock_raised(s)
    IN IF e # None THEN [stream |-> e, skip |-> e]
       ELSE [stream |-> Named(s.stream, "stream", self.scope[1], self.scope[2]),
             skip |-> Named(s.skip, "skip", self.scope[1], self.scope[2])]

ResBlock_forward(self, tensor, c) ==
    ResBlock_returns(self, ResBlock_steps(self, tensor, c))

\* A layer after a call that execution reached (it did when ok).
LayerAfter(ok, layer, x) == IF ok /\ layer # None THEN Conv1D_after(layer, x) ELSE layer

\* The block after a call that computed the values s: every layer reached
\* before an exception is built.
ResBlock_built(self, s, tensor, c) ==
    LET lc == UseConditioning(self, c)
    IN [self EXCEPT
          !.filter_conv = Conv_after(self.filter_conv, tensor),
          !.gate_conv = IF IsTensor(s.conv_filter)
                        THEN Conv_after(self.gate_conv, tensor) ELSE self.gate_conv,
          !.filter_conv_c = LayerAfter(lc /\ IsTensor(s.conv_gate), self.filter_conv_c, c),
          !.gate_conv_c = LayerAfter(lc /\ IsTensor(s.h_filter), self.gate_conv_c, c),
          !.res_conv = LayerAfter(IsTensor(s.out), self.res_conv, s.out),
          !.skip_conv = LayerAfter(IsTensor(s.res), self.skip_conv, s.out)]

ResBlock_after(self, tensor, c) ==
    ResBlock_built(self, ResBlock_steps(self, tensor, c), tensor, c)

\* ----------------------------------------------------------------- WaveNet
\* kernel_size ** n for n >= 0.
RECURSIVE Pow(_, _)
Pow(k, n) == IF n = 0 THEN 1 ELSE k * Pow(k, n - 1)

\* A mutant of BlockDilation: the base 2 whatever the kernel size.
BlockDilation_base2(kernel_size, n) == Pow(2, n)

\* The dilation of the block the constructor builds n-th in a group.
BlockDilation(kernel_size, n) == Pow(kernel_size, n)

\* for n in range(num_layers): self._res_blocks.append(ResBlock(...)), from n on.
RECURSIVE LayerLoop(_, _, _, _)
LayerLoop(blocks, b, n, a) ==
    IF n >= a.num_layers THEN blocks
    ELSE LayerLoop(Append(blocks,
                          ResBlock_init(a.residual_channels, a.gate_channels,
                                        a.skip_channels, a.kernel_size,
                                        BlockDilation(a.kernel_size, n),
                                        a.cin_channels, TRUE, a.causal, <<b, n>>)),
                   b, n + 1, a)

\* for b in range(num_blocks): ..., from b on.
RECURSIVE BlockLoop(_, _, _)
BlockLoop(blocks, b, a) ==
    IF b >= a.num_blocks THEN blocks
    ELSE BlockLoop(LayerLoop(blocks, b, 0, a), b + 1, a)

\* WaveNet.__init__ on the record `a` of its arguments.
WaveNet_init(a) ==
    LET last_channels == IF a.skip_channels.some THEN a.skip_channels.v
                         ELSE a.residual_channels
    IN [skip |-> a.skip_channels.some,
        front_conv |-> Conv_init(a.in_channels, a.residual_channels, 3, 1, a.causal),
        res_blocks |-> BlockLoop(<<>>, 0, a),
        final_conv |-> Conv_init(last_channels, last_channels, 1, 1, a.causal),
        final_zero_conv |-> ZeroConv1d_init(last_channels, a.out_channels)]

\* tf.add_n(inputs): the element-wise sum of a non-empty list of tensors of one
\* shape; its src lists the producers of all of them.
RECURSIVE ConcatSrc(_)
ConcatSrc(xs) == IF xs = <<>> THEN <<>> ELSE Head(xs).src \o ConcatSrc(Tail(xs))

tf_add_n(xs) ==
    IF xs = <<>> THEN Raise("EmptyAddN")
    ELSE IF \E i \in 1..Len(xs) : ~IsTensor(xs[i]) THEN Raise("NoneInput")
    ELSE IF \E i \in 1..Len(xs) : Shape(xs[i]) # Shape(xs[1]) THEN Raise("ShapeMismatch")
    ELSE Tensor(xs[1].batch,
                [t \in 1..TimeLen(xs[1]) |-> UNION {xs[i].dep[t] : i \in 1..Len(xs)}],
                xs[1].ch, ConcatSrc(xs))

\* The loop `for i, f in enumerate(self._res_blocks)` after its first i
\* iterations, started on the stream h0: the running stream h, the list skip,
\* the blocks as the calls leave them, and the log of the calls made (block,
\* stream and c given).  An exception ends the loop: h is the exception.
RECURSIVE ForwardLoop(_, _, _, _)
ForwardLoop(self, c, h0, i) ==
    IF i = 0
    THEN [h |-> h0, skip |-> <<>>, blocks |-> self.res_blocks, calls |-> <<>>]
    ELSE Let(ForwardLoop(self, c, h0, i - 1), LAMBDA st :
         IF IsErr(st.h) THEN st
         ELSE Let(ResBlock_steps(st.blocks[i], st.h, c), LAMBDA s :
              Let(ResBlock_returns(st.blocks[i], s), LAMBDA r :
                  [h |-> r.stream,
                   skip |-> IF self.skip /\ ~IsErr(r.stream)
                            THEN Append(st.skip, r.skip) ELSE st.skip,
                   blocks |-> [st.blocks EXCEPT
                                 ![i] = ResBlock_built(st.blocks[i], s, st.h, c)],
                   calls |-> Append(st.calls,
                                    [block |-> st.blocks[i].scope, h |-> st.h,
                                     c |-> c])])))

\* A mutant of ProjectionInput: the residual stream, skips configured or not.
ProjectionInput_stream(self, st) == st.h

\* The tensor the output projection starts from (lines 155-156, 162).
ProjectionInput(self, st) ==
    IF IsErr(st.h) THEN st.h
    ELSE IF self.skip THEN tf_add_n(st.skip) ELSE st.h

\* Every value WaveNet.forward computes.
WaveNet_steps(self, x, c) ==
    Let(tf_unary(Conv_forward(self.front_conv, x), "relu"), LAMBDA h0 :
    Let(ForwardLoop(self, c, h0, Len(self.res_blocks)), LAMBDA st :
    Let(ProjectionInput(self, st), LAMBDA proj :
    Let(tf_unary(proj, "relu"), LAMBDA relu1 :
    Let(tf_unary(Conv_forward(self.final_conv, relu1), "relu"), LAMBDA relu2 :
        [h0 |-> h0, loop |-> st, proj |-> proj, relu1 |-> relu1, relu2 |-> relu2,
         out |-> ZeroConv1d_forward(self.final_zero_conv, relu2)])))))

\* What WaveNet.forward returns from the values s: the output tensor, or the
\* exception raised.
WaveNet_returns(s) == Named(s.out, "out", 0, 0)

WaveNet_forward(self, x, c) == WaveNet_returns(WaveNet_steps(self, x, c))

\* The network after a call that computed the values s.
WaveNet_built(self, s, x) ==
    [self EXCEPT
       !.front_conv = Conv_after(self.front_conv, x),
       !.res_blocks = s.loop.blocks,
       !.final_conv = IF IsTensor(s.relu1)
                      THEN Conv_after(self.final_conv, s.relu1) ELSE self.final_conv,
       !.final_zero_conv = IF IsTensor(s.relu2)
                           THEN ZeroConv1d_after(self.final_zero_conv, s.relu2)
                           ELSE self.final_zero_conv]

WaveNet_after(self, x, c) == WaveNet_built(self, WaveNet_steps(self, x, c), x)

\* ------------------------------------------------------------ preprocessing
\* src/preprocessing.py, _process_utterance.  Of the arrays only the lengths
\* matter here; the integer-valued local names live in `env`, a function from
\* the names bound so far to their values.

\* mel_spectrogram.shape[0]: librosa frames a centred signal of L samples
\* every hop_length samples.
MelFrames(L, hop_size) == L \div hop_size + 1

\* pad = (out.shape[0] // hparams.hop_size + 1) * hparams.hop_size - out.shape[0]
PadAmount(L, hop_size) == (L \div hop_size + 1) * hop_size - L

\* pad_l = pad // 2
PadLeft(pad) == pad \div 2

\* pad_r = pad // 2 + pad % 2
PadRight(pad) == (pad \div 2) + (pad % 2)

\* len(out[:stop]) for an array of n elements and stop >= 0.
SliceLen(n, stop) == IF stop < n THEN stop ELSE n

\* The names the module binds at import and by its def statements.
ModuleNames ==
    {"ProcessPoolExecutor", "partial", "np", "os", "librosa", "cpu_count",
     "argparse", "hparams", "audio", "build_from_path", "_process_utterance",
     "preprocess", "write_metadata"}

\* The builtins the module uses.
Builtins == {"len", "print", "open", "max", "sum", "str"}

\* The parameters and the local names of _process_utterance that hold no
\* integer.
OtherLocals ==
    {"out_dir", "index", "wav_path", "text", "wav", "sr", "out",
     "constant_values", "out_dtype", "mel_spectrogram"}

\* Whether evaluating `name` in _process_utterance finds a binding: a local,
\* a module global or a builtin.  Otherwise the evaluation raises NameError.
Bound(env, name) ==
    name \in (DOMAIN env) \cup OtherLocals \cup ModuleNames \cup Builtins

\* Lines 51-56 on a wav of L samples: the names bound, and the length of the
\* padded `out`.
PadStep(L, hop_size) ==
    LET pad == PadAmount(L, hop_size)
    IN [env |-> [pad |-> pad, pad_l |-> PadLeft(pad), pad_r |-> PadRight(pad)],
        len_out |-> L + PadLeft(pad) + PadRight(pad)]

\* Lines 57-66 from the names env and an `out` of len_out samples, the
\* spectrogram having frames frames: N is bound, then each statement
\* evaluates the name hop_length.  The result is the exception raised, or the
\* value of timesteps.
TrimStep(env, len_out, frames) ==
    LET env2 == [N |-> frames] @@ env
    IN IF ~Bound(env2, "hop_length")
       THEN [env |-> env2, len_out |-> len_out, result |-> Raise("NameError")]
       ELSE IF ~(len_out >= env2.N * env2.hop_length)
       THEN [env |-> env2, len_out |-> len_out, result |-> Raise("AssertionError")]
       ELSE LET trimmed == SliceLen(len_out, env2.N * env2.hop_length)
            IN IF trimmed % env2.hop_length # 0
               THEN [env |-> env2, len_out |-> trimmed,
                     result |-> Raise("AssertionError")]
               ELSE [env |-> env2, len_out |-> trimmed,
                     result |-> [kind |-> "value", timesteps |-> trimmed]]

\* ----------------------------------------------------------- state machine
\* One object of modules.py is constructed and then called any number of
\* times.  Each object variable holds Absent, or the object, the arguments it
\* was constructed with, and the last call made on it (NoCall before one).
VARIABLES conv, zeroconv, resblock, wavenet, utt

vars == <<conv, zeroconv, resblock, wavenet, utt>>

Absent == [state |-> "absent"]

NoCall == [state |-> "nocall"]

Live(o) == o.state = "live"

Called(o) == Live(o) /\ o.call.state = "called"

\* An object no call is running on: its caller has taken the last result.
Ready(o) == Live(o) /\ o.call = NoCall

\* Channel widths of layers and inputs: 1 broadcasts, 2 and 3 do not.
Channels == {1, 2, 3}

KernelSizes == 0..MaxK

Dilations == 0..MaxD

\* Widths of the output of a single layer under test.
Filters == {1, 2}

OptionalChannels == {NoneArg} \cup {Some(v) : v \in Channels}

\* The skip_channels given to a WaveNet.
SkipChoices == {NoneArg, Some(2)}

\* No call of _process_utterance is running.
Idle == [pc |-> "idle"]

Init ==
    /\ conv = Absent
    /\ zeroconv = Absent
    /\ resblock = Absent
    /\ wavenet = Absent
    /\ utt = Idle

NothingLive ==
    /\ conv = Absent /\ zeroconv = Absent /\ resblock = Absent /\ wavenet = Absent
    /\ utt = Idle

\* Conv(in_channels, out_channels, kernel_size, dilation, causal)
ConvNew ==
    /\ NothingLive
    /\ \E in_channels \in Channels, out_channels \in Filters,
          kernel_size \in KernelSizes, dilation \in Dilations, causal \in BOOLEAN :
         conv' = [state |-> "live",
                  args |-> [in_channels |-> in_channels, out_channels |-> out_channels,
                            kernel_size |-> kernel_size, dilation |-> dilation,
                            causal |-> causal],
                  obj |-> Conv_init(in_channels, out_channels, kernel_size, dilation, causal),
                  kernel |-> <<>>,
                  call |-> NoCall]
    /\ UNCHANGED <<zeroconv, resblock, wavenet, utt>>

\* conv(x) on an input of shape (Batch, T, ch), and the numbers the graph
\* gives for a feed (y) and for the feed changed at each single time step s
\* (yp[s]).  in_ch is the width the layer was built for when the call began
\* (0: not built).  The first good call creates the kernel (he_uniform, one
\* of NumSeeds draws) and the bias (zeros).
ConvCall ==
    /\ Ready(conv)
    /\ \E T \in 1..MaxT, ch \in Channels,
          seed \in (IF conv.kernel = <<>> THEN 1..NumSeeds ELSE {1}) :
       \E x \in {Placeholder("x", Batch, T, ch)}, feed \in {Feed(1, T, ch)} :
       \E out \in {Conv_forward(conv.obj, x)} :
       \E kernel \in {IF conv.kernel # <<>> THEN conv.kernel
                      ELSE IF IsTensor(out)
                           THEN KernelHeUniform(seed, conv.obj.conv.kernel_size, ch,
                                                conv.obj.conv.filters)
                           ELSE <<>>},
          bias \in {Zeros(conv.obj.conv.filters)} :
            conv' = [conv EXCEPT
                       !.obj = Conv_after(conv.obj, x),
                       !.kernel = kernel,
                       !.call = [state |-> "called", x |-> x, out |-> out,
                                 in_ch |-> conv.obj.conv.in_ch,
                                 feed |-> feed,
                                 y |-> IF IsTensor(out)
                                       THEN Conv_values(conv.obj, kernel, bias, feed)
                                       ELSE <<>>,
                                 yp |-> IF IsTensor(out)
                                        THEN [s \in 1..T |->
                                                Conv_values(conv.obj, kernel, bias,
                                                            Perturb(feed, s))]
                                        ELSE <<>>]]
    /\ UNCHANGED <<zeroconv, resblock, wavenet, utt>>

\* ZeroConv1d(in_channel, out_channel)
ZeroConvNew ==
    /\ NothingLive
    /\ \E in_channel \in Channels, out_channel \in Filters :
         zeroconv' = [state |-> "live",
                      args |-> [in_channel |-> in_channel, out_channel |-> out_channel],
                      obj |-> ZeroConv1d_init(in_channel, out_channel),
                      trained |-> FALSE,
                      call |-> NoCall]
    /\ UNCHANGED <<conv, resblock, wavenet, utt>>

\* zeroconv(x), and the numbers the graph gives for a feed.
ZeroConvCall ==
    /\ Ready(zeroconv)
    /\ \E T \in 1..MaxT, ch \in Channels, seed \in 1..NumSeeds :
       \E x \in {Placeholder("x", Batch, T, ch)} :
       \E out \in {ZeroConv1d_forward(zeroconv.obj, x)},
          after \in {ZeroConv1d_after(zeroconv.obj, x)} :
            zeroconv' = [zeroconv EXCEPT
                           !.obj = after,
                           !.call = [state |-> "called", x |-> x, out |-> out,
                                     feed |-> Feed(seed, T, ch),
                                     y |-> IF IsTensor(out)
                                           THEN ZeroConv1d_values(after, Feed(seed, T, ch))
                                           ELSE <<>>]]
    /\ UNCHANGED <<conv, resblock, wavenet, utt>>

\* The optimizer (outside modules.py) assigns new, nonzero values to one of
\* the variables of a built ZeroConv1d.
ZeroConvTrain ==
    /\ Ready(zeroconv)
    /\ zeroconv.obj.conv.in_ch # 0
    /\ \E which \in {"kernel", "bias", "scale"} :
         LET o == zeroconv.obj
             n == o.conv.filters
         IN zeroconv' = [zeroconv EXCEPT
               !.trained = TRUE,
               !.obj = CASE which = "kernel" ->
                              [o EXCEPT !.kernel = KernelHeUniform(1, 1, o.conv.in_ch, n)]
                         [] which = "bias" -> [o EXCEPT !.bias = [c \in 1..n |-> 1]]
                         [] OTHER -> [o EXCEPT !.scale = [c \in 1..n |-> 1]]]
    /\ UNCHANGED <<conv, resblock, wavenet, utt>>

\* ResBlock(in_channels, out_channels, skip_channels, kernel_size, dilation,
\*          cin_channels, local_conditioning, causal)
ResBlockNew ==
    /\ NothingLive
    /\ \E in_channels \in Channels, out_channels \in Channels,
          skip_channels \in OptionalChannels, kernel_size \in 1..MaxK,
          dilation \in 1..MaxD, local_conditioning \in BOOLEAN, causal \in BOOLEAN :
         resblock' = [state |-> "live",
                      args |-> [in_channels |-> in_channels, out_channels |-> out_channels,
                                skip_channels |-> skip_channels,
                                kernel_size |-> kernel_size, dilation |-> dilation,
                                local_conditioning |-> local_conditioning,
                                causal |-> causal],
                      obj |-> ResBlock_init(in_channels, out_channels, skip_channels,
                                            kernel_size, dilation, 1, local_conditioning,
                                            causal, <<0, 0>>),
                      call |-> NoCall]
    /\ UNCHANGED <<conv, zeroconv, wavenet, utt>>

\* The conditioning argument of a call on a stream of T steps: absent, or a
\* tensor of T steps.
Conditionings(T) == {None, Placeholder("c", Batch, T, 1)}

\* resblock(tensor, c) on a stream of in_channels channels.
ResBlockCall ==
    /\ Ready(resblock)
    /\ \E T \in 1..MaxT :
       \E c \in Conditionings(T) :
         LET x == Placeholder("x", Batch, T, resblock.args.in_channels)
             s == ResBlock_steps(resblock.obj, x, c)
         IN resblock' = [resblock EXCEPT
                           !.obj = ResBlock_built(resblock.obj, s, x, c),
                           !.call = [state |-> "called", x |-> x, c |-> c,
                                     out |-> ResBlock_returns(resblock.obj, s)]]
    /\ UNCHANGED <<conv, zeroconv, wavenet, utt>>

\* WaveNet(in_channels=1, out_channels=2, num_blocks, num_layers,
\*         residual_channels, gate_channels, skip_channels, kernel_size,
\*         cin_channels, causal)
WaveNetNew ==
    /\ NothingLive
    /\ \E num_blocks \in 0..MaxGroups, num_layers \in 0..MaxLayers,
          residual_channels \in Channels, gate_channels \in Channels,
          skip_channels \in SkipChoices, kernel_size \in 1..MaxK,
          causal \in BOOLEAN :
         LET a == [in_channels |-> 1, out_channels |-> 2, num_blocks |-> num_blocks,
                   num_layers |-> num_layers, residual_channels |-> residual_channels,
                   gate_channels |-> gate_channels, skip_channels |-> skip_channels,
                   kernel_size |-> kernel_size, cin_channels |-> 1, causal |-> causal]
         IN wavenet' = [state |-> "live", args |-> a, obj |-> WaveNet_init(a),
                        call |-> NoCall]
    /\ UNCHANGED <<conv, zeroconv, resblock, utt>>

\* wavenet(x, c) on an input of in_channels channels.
WaveNetCall ==
    /\ Ready(wavenet)
    /\ \E T \in 1..MaxT :
       \E c \in Conditionings(T), x \in {Placeholder("x", Batch, T, wavenet.args.in_channels)} :
       \E s \in {WaveNet_steps(wavenet.obj, x, c)} :
            wavenet' = [wavenet EXCEPT
                          !.obj = WaveNet_built(wavenet.obj, s, x),
                          !.call = [state |-> "called", x |-> x, c |-> c,
                                    calls |-> s.loop.calls,
                                    skip |-> s.loop.skip,
                                    h |-> s.loop.h,
                                    proj |-> s.proj,
                                    out |-> WaveNet_returns(s)]]
    /\ UNCHANGED <<conv, zeroconv, resblock, utt>>

\* The caller takes the result of the last call; the object stays as the call
\* left it.
ConvReturn ==
    /\ Called(conv)
    /\ conv' = [conv EXCEPT !.call = NoCall]
    /\ UNCHANGED <<zeroconv, resblock, wavenet, utt>>

ZeroConvReturn ==
    /\ Called(zeroconv)
    /\ zeroconv' = [zeroconv EXCEPT !.call = NoCall]
    /\ UNCHANGED <<conv, resblock, wavenet, utt>>

ResBlockReturn ==
    /\ Called(resblock)
    /\ resblock' = [resblock EXCEPT !.call = NoCall]
    /\ UNCHANGED <<conv, zeroconv, wavenet, utt>>

WaveNetReturn ==
    /\ Called(wavenet)
    /\ wavenet' = [wavenet EXCEPT !.call = NoCall]
    /\ UNCHANGED <<conv, zeroconv, resblock, utt>>

\* _process_utterance is called (build_from_path submits it, line 30): the
\* wav is loaded and rescaled and the spectrogram computed (lines 36-49).
UttLoad ==
    /\ NothingLive
    /\ \E L \in 1..MaxAudioLen, hop_size \in 1..MaxHop :
         utt' = [pc |-> "loaded", len_wav |-> L, hop_size |-> hop_size,
                 frames |-> MelFrames(L, hop_size),
                 env |-> [n \in {} |-> 0], len_out |-> L, result |-> None]
    /\ UNCHANGED <<conv, zeroconv, resblock, wavenet>>

\* Lines 51-56: the pad amounts and the padded `out`.
UttPad ==
    /\ utt.pc = "loaded"
    /\ \E s \in {PadStep(utt.len_wav, utt.hop_size)} :
         utt' = [utt EXCEPT !.pc = "padded", !.env = s.env, !.len_out = s.len_out]
    /\ UNCHANGED <<conv, zeroconv, resblock, wavenet>>

\* Lines 57-66: the assertions and the trimming; the call raises or goes on
\* to save the arrays and return timesteps (lines 68-77).
UttTrim ==
    /\ utt.pc = "padded"
    /\ \E s \in {TrimStep(utt.env, utt.len_out, utt.frames)} :
         utt' = [utt EXCEPT !.pc = IF IsErr(s.result) THEN "raised" ELSE "returned",
                            !.env = s.env, !.len_out = s.len_out,
                            !.result = s.result]
    /\ UNCHANGED <<conv, zeroconv, resblock, wavenet>>

\* future.result() (line 32) hands the result, or the exception, to
\* build_from_path.
UttDone ==
    /\ utt.pc \in {"raised", "returned"}
    /\ utt' = Idle
    /\ UNCHANGED <<conv, zeroconv, resblock, wavenet>>

Next ==
    \/ ConvNew
    \/ ConvCall
    \/ ConvReturn
    \/ ZeroConvNew
    \/ ZeroConvCall
    \/ ZeroConvTrain
    \/ ZeroConvReturn
    \/ ResBlockNew
    \/ ResBlockCall
    \/ ResBlockReturn
    \/ WaveNetNew
    \/ WaveNetCall
    \/ WaveNetReturn
    \/ UttLoad
    \/ UttPad
    \/ UttTrim
    \/ UttDone

Spec == Init /\ [][Next]_vars

\* ------------------------------------------------------------------ claims
\* Every step of the tensor is computed from input steps no later than it.
Causal(x) == \A t \in 1..TimeLen(x) : x.dep[t] \subseteq 1..t

\* C1: causality.  The output of a causal Conv, of a ResBlock built from causal
\* Convs and of a WaveNet built from them at time index t depends only on
\* input samples at indices <= t: in the graph every output step is computed
\* from input steps <= t only, and the numbers a causal Conv gives for two
\* feeds that differ at step s only agree at every index t < s.
C1_Causality ==
    /\ (Called(conv) /\ conv.obj.causal /\ IsTensor(conv.call.out)) =>
          /\ Causal(conv.call.out)
          /\ Len(conv.call.y) = Len(conv.call.feed)
          /\ \A s \in 1..Len(conv.call.feed) :
                /\ Len(conv.call.yp[s]) = Len(conv.call.feed)
                /\ \A t \in 1..(s - 1) : conv.call.y[t] = conv.call.yp[s][t]
    /\ (Called(resblock) /\ resblock.obj.causal /\ IsTensor(resblock.call.out.stream)) =>
          /\ Causal(resblock.call.out.stream)
          /\ IsTensor(resblock.call.out.skip) => Causal(resblock.call.out.skip)
    /\ (Called(wavenet) /\ wavenet.args.causal /\ IsTensor(wavenet.call.out)) =>
          Causal(wavenet.call.out)

\* A causal WaveNet of at least two blocks with kernel_size >= 2 has returned
\* an output of MaxT steps whose last step is computed from every input step.
C1_Witness ==
    /\ Called(wavenet) /\ wavenet.args.causal /\ wavenet.args.kernel_size >= 2
    /\ Len(wavenet.obj.res_blocks) >= 2
    /\ IsTensor(wavenet.call.out)
    /\ TimeLen(wavenet.call.out) = MaxT
    /\ wavenet.call.out.dep[MaxT] = 1..MaxT

\* A call on a Conv whose layer is not yet built, or is built for the width of
\* the input given.
ConvCalledInWidth ==
    /\ Called(conv)
    /\ conv.call.in_ch \in {0, conv.call.x.ch}

\* C2: a causal Conv with kernel_size >= 1 and dilation >= 1 returns, for an
\* input of T steps, an output of exactly T steps (the graph tensor and the
\* numbers): the first T steps of the convolution of the padded input, the
\* last P = dilation * (kernel_size - 1) being dropped when P # 0, and
\* nothing being dropped (the output not emptied) when P = 0.
C2_CausalLength ==
    (/\ ConvCalledInWidth
     /\ conv.args.causal /\ conv.args.kernel_size >= 1 /\ conv.args.dilation >= 1) =>
        LET T == TimeLen(conv.call.x)
            P == conv.args.dilation * (conv.args.kernel_size - 1)
            full == Conv1D_values(conv.kernel, Zeros(conv.obj.conv.filters),
                                  conv.args.dilation,
                                  PadValues(conv.call.feed, P, conv.call.x.ch))
        IN /\ conv.obj.padding = P
           /\ IsTensor(conv.call.out)
           /\ TimeLen(conv.call.out) = T
           /\ Len(conv.call.y) = T
           /\ Len(full) = T + P
           /\ \A t \in 1..T : conv.call.y[t] = full[t]

\* A causal Conv with the largest kernel_size and dilation (P # 0) has been
\* called on MaxT steps and has returned MaxT steps.
C2_Witness ==
    /\ ConvCalledInWidth /\ conv.args.causal
    /\ conv.args.kernel_size = MaxK /\ conv.args.dilation = MaxD
    /\ conv.obj.padding # 0
    /\ TimeLen(conv.call.x) = MaxT
    /\ TimeLen(conv.call.out) = MaxT

\* C3 (as claimed): a non-causal Conv with kernel_size >= 1 and dilation >= 1
\* returns, for an input of T steps, an output of T steps.
C3_NonCausalLength ==
    (/\ ConvCalledInWidth
     /\ ~conv.args.causal /\ conv.args.kernel_size >= 1 /\ conv.args.dilation >= 1) =>
        /\ IsTensor(conv.call.out)
        /\ TimeLen(conv.call.out) = TimeLen(conv.call.x)

\* C4 (as claimed): for every WaveNet with num_blocks >= 1 and num_layers >= 1,
\* skip channels configured or not, forward on an input of shape
\* (batch, T, in_channels) with a conditioning tensor of T steps returns a
\* tensor of shape (batch, T, out_channels).
C4_WaveNetShape ==
    (/\ Called(wavenet)
     /\ wavenet.args.num_blocks >= 1 /\ wavenet.args.num_layers >= 1
     /\ IsTensor(wavenet.call.c)
     /\ TimeLen(wavenet.call.c) = TimeLen(wavenet.call.x)) =>
        /\ IsTensor(wavenet.call.out)
        /\ Shape(wavenet.call.out) =
              <<wavenet.call.x.batch, TimeLen(wavenet.call.x), wavenet.args.out_channels>>

\* A ZeroConv1d no optimizer step has touched has returned from a call.
FreshZeroConvCalled ==
    /\ Called(zeroconv)
    /\ ~zeroconv.trained
    /\ IsTensor(zeroconv.call.out)

\* C5: immediately after construction (kernel, bias and scale at their initial
\* value 0, before any parameter update) ZeroConv1d.forward returns the
\* all-zero tensor of out_channel channels for every input: each element is
\* (0 * x + 0) * exp(3 * 0).
C5_ZeroInit ==
    FreshZeroConvCalled =>
        /\ Shape(zeroconv.call.out) =
              <<zeroconv.call.x.batch, TimeLen(zeroconv.call.x), zeroconv.args.out_channel>>
        /\ Len(zeroconv.call.y) = TimeLen(zeroconv.call.x)
        /\ \A t \in 1..Len(zeroconv.call.y) :
              /\ Len(zeroconv.call.y[t]) = zeroconv.args.out_channel
              /\ \A o \in 1..zeroconv.args.out_channel :
                    zeroconv.call.y[t][o] = [m |-> 0, e |-> 0]

\* A fresh ZeroConv1d has been called on MaxT steps of a feed that is not zero.
C5_Witness ==
    /\ FreshZeroConvCalled
    /\ TimeLen(zeroconv.call.x) = MaxT
    /\ \E t \in 1..MaxT : \E c \in 1..zeroconv.call.x.ch : zeroconv.call.feed[t][c] # 0
    /\ zeroconv.call.y[MaxT][1].m = 0

\* The dilation a ResBlock was constructed with, read off its two Convs.
DilationOf(block) ==
    IF block.filter_conv.conv.dilation_rate = block.gate_conv.conv.dilation_rate
    THEN block.filter_conv.conv.dilation_rate ELSE 0 - 1

\* C6: a WaveNet holds exactly num_blocks * num_layers ResBlocks, ordered group
\* by group; the block at position n of every group has dilation
\* kernel_size^n (1 at n = 0, kernel_size times the dilation of the block
\* before it at n > 0, so the dilation restarts at 1 in each group); this holds
\* in every state, whatever calls have been made since construction.
C6_DilationSchedule ==
    Live(wavenet) =>
        LET a == wavenet.args
            blocks == wavenet.obj.res_blocks
            at(b, n) == blocks[b * a.num_layers + n + 1]
        IN /\ Len(blocks) = a.num_blocks * a.num_layers
           /\ \A b \in 0..(a.num_blocks - 1) : \A n \in 0..(a.num_layers - 1) :
                 /\ at(b, n).scope = <<b, n>>
                 /\ DilationOf(at(b, n)) =
                       IF n = 0 THEN 1 ELSE a.kernel_size * DilationOf(at(b, n - 1))
                 /\ DilationOf(at(b, n)) = Pow(a.kernel_size, n)

\* A WaveNet of MaxGroups groups of MaxLayers blocks with the largest kernel
\* size has been called and has returned a tensor.
C6_Witness ==
    /\ Called(wavenet) /\ IsTensor(wavenet.call.out)
    /\ wavenet.args.num_blocks = MaxGroups /\ wavenet.args.num_layers = MaxLayers
    /\ wavenet.args.kernel_size = MaxK
    /\ DilationOf(wavenet.obj.res_blocks[MaxGroups * MaxLayers]) = Pow(MaxK, MaxLayers - 1)

\* A call of WaveNet.forward whose loop over the blocks ran to its end.
WaveNetLoopDone == Called(wavenet) /\ IsTensor(wavenet.call.h)

\* C7: in WaveNet.forward each block is applied once, in construction order,
\* to the running stream (the entry conv's ReLU for the first block, the
\* stream the block before returned for the others) and to the unmodified
\* conditioning tensor of the call.  With skip channels configured, the input
\* of the output projection is the sum of exactly one skip per block, in
\* block order; without, no skip is collected and the input of the
\* projection is the stream the last block returned.
C7_ProjectionInput ==
    WaveNetLoopDone =>
        LET blocks == wavenet.obj.res_blocks
            N == Len(blocks)
            call == wavenet.call
            id(i) == <<blocks[i].scope[1], blocks[i].scope[2]>>
        IN /\ Len(call.calls) = N
           /\ \A i \in 1..N :
                 /\ call.calls[i].block = blocks[i].scope
                 /\ call.calls[i].c = call.c
                 /\ call.calls[i].h.src =
                       IF i = 1 THEN << <<"relu", 0, 0>> >>
                       ELSE << <<"stream">> \o id(i - 1) >>
           /\ wavenet.obj.skip =>
                 /\ Len(call.skip) = N
                 /\ \A i \in 1..N : call.skip[i].src = << <<"skip">> \o id(i) >>
                 /\ N >= 1 => /\ IsTensor(call.proj)
                              /\ call.proj.src = [i \in 1..N |-> <<"skip">> \o id(i)]
           /\ ~wavenet.obj.skip =>
                 /\ call.skip = <<>>
                 /\ call.proj = call.h
                 /\ N >= 1 => call.proj.src = << <<"stream">> \o id(N) >>

\* WaveNets of MaxGroups * MaxLayers blocks with skip channels have summed one
\* skip of each block.
C7_Witness ==
    /\ WaveNetLoopDone
    /\ wavenet.obj.skip
    /\ Len(wavenet.obj.res_blocks) = MaxGroups * MaxLayers
    /\ IsTensor(wavenet.call.proj)
    /\ Len(wavenet.call.proj.src) = MaxGroups * MaxLayers
    /\ IsTensor(wavenet.call.out)

\* C8 (as claimed): a ResBlock constructed with skip_channels = None returns a
\* None skip from every forward call that returns; one constructed with
\* skip_channels = s returns a skip tensor of s channels and of the
\* time-length of the input stream.
C8_SkipToggle ==
    (Called(resblock) /\ IsTensor(resblock.call.out.stream)) =>
        IF resblock.args.skip_channels.some
        THEN /\ IsTensor(resblock.call.out.skip)
             /\ resblock.call.out.skip.ch = resblock.args.skip_channels.v
             /\ TimeLen(resblock.call.out.skip) = TimeLen(resblock.call.x)
        ELSE resblock.call.out.skip = None

\* An input of T steps that, padded by a block's Convs, is not shorter than
\* their dilated kernel.
FitsKernel(block, T) ==
    ValidLen(T + 2 * block.filter_conv.padding, block.filter_conv.conv.kernel_size,
             block.filter_conv.conv.dilation_rate) >= 1

\* C9: ResBlock.forward on a block constructed with local conditioning, and
\* WaveNet.forward on a network of at least one block, called with c = None,
\* raise and return neither a stream nor a skip: the gate is never computed
\* without the conditioning term.  The exception is the one of the
\* conditioning layer applied to None, unless the Convs applied to the stream
\* before it have rejected a stream shorter than their kernel.
C9_MissingConditioning ==
    /\ (Called(resblock) /\ resblock.args.local_conditioning /\ resblock.call.c = None) =>
          /\ IsErr(resblock.call.out.stream)
          /\ resblock.call.out.skip = resblock.call.out.stream
          /\ FitsKernel(resblock.obj, TimeLen(resblock.call.x)) =>
                resblock.call.out.stream = Raise("NoneInput")
    /\ (Called(wavenet) /\ Len(wavenet.obj.res_blocks) >= 1 /\ wavenet.call.c = None) =>
          /\ IsErr(wavenet.call.out)
          /\ wavenet.call.h = wavenet.call.out
          /\ Len(wavenet.call.calls) = 1
          /\ wavenet.call.skip = <<>>
          /\ FitsKernel(wavenet.obj.res_blocks[1], TimeLen(wavenet.call.x)) =>
                wavenet.call.out = Raise("NoneInput")

\* A ResBlock with local conditioning and skip channels, already built by a
\* call with a conditioning tensor, has been called with c = None.
C9_Witness ==
    /\ Called(resblock)
    /\ resblock.args.local_conditioning /\ resblock.args.skip_channels.some
    /\ resblock.args.in_channels = resblock.args.out_channels
    /\ resblock.obj.filter_conv_c.in_ch # 0
    /\ resblock.call.c = None
    /\ resblock.call.out.stream = Raise("NoneInput")

\* C10 (as claimed): no Conv with a non-positive kernel size or dilation (and
\* hence with a zero or negative padding amount from them) ever exists:
\* constructing one raises.
C10_ConvRejectsNonPositive ==
    Live(conv) => conv.args.kernel_size >= 1 /\ conv.args.dilation >= 1

\* C11 (as claimed): no WaveNet with num_blocks <= 0 or num_layers <= 0, and
\* so none with an empty block list, is ever constructed: constructing one
\* raises, and forward never runs with zero blocks.
C11_WaveNetRejectsNoBlocks ==
    Live(wavenet) =>
        /\ wavenet.args.num_blocks >= 1 /\ wavenet.args.num_layers >= 1
        /\ Len(wavenet.obj.res_blocks) >= 1
        /\ Called(wavenet) => Len(wavenet.call.calls) >= 1

\* C12 (as claimed): a call of Conv.forward on an input whose channel count
\* differs from the in_channels the Conv was constructed with raises and
\* returns no tensor.
C12_ConvChecksInChannels ==
    (Called(conv) /\ conv.call.x.ch # conv.args.in_channels) =>
        IsErr(conv.call.out)

\* The stream the i-th block called by WaveNet.forward returned: the stream
\* given to the next block, or the one the loop ended with.
StreamReturned(call, i) ==
    IF i < Len(call.calls) THEN call.calls[i + 1].h ELSE call.h

\* C13 (as claimed): in every WaveNet, whatever residual_channels,
\* gate_channels, kernel_size and causal flag, called with a conditioning
\* tensor of the input's time-length, every block returns a stream of the
\* time-length and of the channel width (residual_channels) of the stream it
\* was given.
C13_ResidualStream ==
    (Called(wavenet) /\ IsTensor(wavenet.call.c)) =>
        \A i \in 1..Len(wavenet.call.calls) :
            LET given == wavenet.call.calls[i].h
                returned == StreamReturned(wavenet.call, i)
            IN /\ IsTensor(returned)
               /\ Shape(returned) = Shape(given)
               /\ returned.ch = wavenet.args.residual_channels

\* C14 (as claimed): in _process_utterance, for every audio length L >= 1 and
\* hop size h >= 1, with N = L // h + 1 frames: pad = N * h - L lies in 1..h,
\* pad_l + pad_r = pad with pad_r - pad_l in {0, 1}, the padded audio has at
\* least N * h samples, neither assertion fails nor does anything else raise,
\* and the function returns timesteps = N * h, the length of the trimmed
\* audio, a multiple of h.
C14_PadArithmetic ==
    /\ utt.pc \in {"padded", "raised", "returned"} =>
          LET h == utt.hop_size
              N == utt.len_wav \div h + 1
          IN /\ utt.env.pad = N * h - utt.len_wav
             /\ utt.env.pad \in 1..h
             /\ utt.env.pad_l + utt.env.pad_r = utt.env.pad
             /\ utt.env.pad_r - utt.env.pad_l \in {0, 1}
             /\ utt.len_out >= N * h
    /\ utt.pc # "raised"
    /\ utt.pc = "returned" =>
          /\ utt.result = [kind |-> "value",
                           timesteps |-> (utt.len_wav \div utt.hop_size + 1) * utt.hop_size]
          /\ utt.len_out = utt.result.timesteps
          /\ utt.len_out % utt.hop_size = 0

====
